---- MODULE Spec2Model ----
(***************************************************************************)
(* Temporal simulation engine of the Smart City Planner                    *)
(* (src/src/engine/Simulator.js) with the scenario catalog                 *)
(* (utils/constants.js, SCENARIOS) and the rating and the zone chart of    *)
(* the metrics calculator (engine/Metrics.js).                             *)
(*                                                                         *)
(* Numbers.  The engine computes in IEEE-754 doubles and stores the result *)
(* of Math.round.  The model computes the same expressions exactly over    *)
(* the rationals and rounds half up, as Math.round does.  The two differ   *)
(* only where the exact value is k + 1/2 and the double lands just below   *)
(* it; those arguments are listed in DoubleBelowHalf.  Values returned by  *)
(* a scenario modifier may have one decimal (x * 1.5, x * 0.9, x * 0.3),   *)
(* so a modifier works on tenths: the integer 10 * x stands for x.         *)
(***************************************************************************)
EXTENDS Integers, Sequences, FiniteSets, TLC

\* ------------------------------------------------------------------ bounds
\* simulateTo targets and steps stay within baseYear - MaxBack .. baseYear + MaxAhead
MaxBack == 1
MaxAhead == 2
\* the time traveller goes back to baseYear - MaxRewind
MaxRewind == 4
\* at most MaxHistory scenarios are applied between two resets
MaxHistory == 1
\* at most MaxRuns simulateTo loops are suspended in their pacing delay at once
MaxRuns == 2
\* the forecaster looks up to MaxHorizon years past the baseline year
MaxHorizon == 10
\* the planner applies at most MaxRecords scenarios between two resets
MaxRecords == 2
\* the surveyor counts up to MaxCount cells of each zone kind
MaxCount == 2

\* ------------------------------------------------------- program constants
baseYear == 2025
SyntheticTrafficDensity == 50
MinAirQuality == 30
MinWalkability == 20

Years == (baseYear - MaxBack)..(baseYear + MaxAhead)
Runs == 1..MaxRuns

Max(a, b) == IF a >= b THEN a ELSE b
Min(a, b) == IF a <= b THEN a ELSE b

\* Math.round of the rational n / d (d > 0): the nearest integer, halves up,
\* also for negative values (Math.round(-4.5) = -4).
MathRound(n, d) == ((2 * n) \div d + 1) \div 2

\* Arguments <<expression, baseline value, elapsed years>> for which the exact
\* value of the expression is k + 1/2 while its double evaluation is just below
\* k + 1/2, so that Math.round gives k and not k + 1.  Complete for baseline
\* air quality and walkability in 0..100 and |elapsed| <= 12, and for these
\* baseline populations and |elapsed| <= 12: those of Baselines, the
\* populations a year step stores for them from five years before to twelve
\* years after the baseline year, and each of these after one, two or three
\* population-growth scenarios, all of which saveBaseline can make the
\* baseline (1500 * 1.015 is 1522.4999999999998 in doubles).
DoubleBelowHalf == {<<"population", 500000, 2>>, <<"population", 507500, 1>>,
                    <<"population", 1500, 1>>, <<"population", 1687500, 1>>,
                    <<"airQuality", 60, -10>>, <<"airQuality", 100, -10>>,
                    <<"airQuality", 100, -6>>, <<"airQuality", 100, -2>>,
                    <<"walkability", 100, -10>>}

RoundDouble(kind, base, elapsed, exact) ==
    IF <<kind, base, elapsed>> \in DoubleBelowHalf THEN exact - 1 ELSE exact

\* Non-negative integers of any size as little-endian sequences of base-10000
\* digits: baseline.population * 1.015^n does not fit a machine integer.  The
\* digit loops are recursive functions: the argument of a function is a value,
\* evaluated once, where the argument of an operator is evaluated at each use.
RECURSIVE BigFromInt(_)
BigFromInt(n) == IF n = 0 THEN <<>> ELSE <<n % 10000>> \o BigFromInt(n \div 10000)

BigToInt(ds) ==
    LET toInt[digits \in Seq(0..9999)] ==
            IF digits = <<>> THEN 0 ELSE Head(digits) + 10000 * toInt[Tail(digits)]
    IN  toInt[ds]

\* ds * m + carry
BigMul(ds, m, carry) ==
    LET mul[a \in Seq(0..9999) \X Nat] ==
            IF a[1] = <<>>
            THEN BigFromInt(a[2])
            ELSE LET v == Head(a[1]) * m + a[2]
                 IN  <<v % 10000>> \o mul[<<Tail(a[1]), v \div 10000>>]
    IN  mul[<<ds, carry>>]

\* floor(ds / d): long division from the top digit down, a[2] digits left and
\* a[3] the remainder of the digits above them
BigDiv(ds, d) ==
    LET div[a \in Seq(0..9999) \X Nat \X Nat] ==
            IF a[2] = 0
            THEN <<>>
            ELSE LET v == a[3] * 10000 + a[1][a[2]]
                 IN  div[<<a[1], a[2] - 1, v % d>>] \o <<v \div d>>
    IN  div[<<ds, Len(ds), 0>>]

RECURSIVE BigMulPow(_, _, _)
BigMulPow(ds, m, n) == IF n = 0 THEN ds ELSE BigMulPow(BigMul(ds, m, 0), m, n - 1)

RECURSIVE BigDivPow(_, _, _)
BigDivPow(ds, d, n) == IF n = 0 THEN ds ELSE BigDivPow(BigDiv(ds, d), d, n - 1)

\* Faulty variant: simple interest, population * (1 + growthRate * elapsed)
GrownPopulationLinear(population, elapsed) ==
    MathRound(population * (1000 + 15 * elapsed), 1000)

\* Math.round(population * Math.pow(1 + growthRate, elapsed)), growthRate = 0.015:
\* 1.015^e = 1015^e / 1000^e, and round(x) = (floor(2x) + 1) div 2.
GrownPopulation(population, elapsed) ==
    LET twice == BigFromInt(2 * population)
        floor2x == IF elapsed >= 0
                   THEN BigDivPow(BigMulPow(twice, 1015, elapsed), 1000, elapsed)
                   ELSE BigDivPow(BigMulPow(twice, 1000, -elapsed), 1015, -elapsed)
    IN  RoundDouble("population", population, elapsed, (BigToInt(floor2x) + 1) \div 2)

\* ------------------------------------------------------------ statistics
StatKeys == {"population", "sustainabilityScore", "carbonFootprint",
             "energyEfficiency", "greenCoverage", "transitScore", "walkability",
             "airQuality", "energyConsumption"}
BoundedKeys == {"sustainabilityScore", "energyEfficiency", "greenCoverage",
                "transitScore", "walkability", "airQuality"}
ZoneKinds == {"empty", "residential", "commercial", "industrial", "green",
              "transit", "road"}

\* Statistics the city can have when the simulator is constructed: a typical
\* city, and one with metrics at the ends of their ranges.
Baselines ==
    { [population |-> 500000, sustainabilityScore |-> 70, carbonFootprint |-> 10,
       energyEfficiency |-> 65, greenCoverage |-> 20, transitScore |-> 50,
       walkability |-> 70, airQuality |-> 75, energyConsumption |-> 1000],
      [population |-> 1000, sustainabilityScore |-> 95, carbonFootprint |-> -5,
       energyEfficiency |-> 0, greenCoverage |-> 95, transitScore |-> 90,
       walkability |-> 100, airQuality |-> 100, energyConsumption |-> 0] }

BaselineDistributions ==
    { [empty |-> 0, residential |-> 40, commercial |-> 10, industrial |-> 5,
       green |-> 20, transit |-> 5, road |-> 20] }

\* ------------------------------------------------------ scenario catalog
\* Own keys of SCENARIOS.
ScenarioKeys == {"population-growth", "add-transit", "green-expansion",
                 "renewable-energy"}
\* Property names every object literal inherits from Object.prototype:
\* SCENARIOS[id] is a truthy value without a modifier for them.
InheritedKeys == {"constructor", "toString", "toLocaleString", "valueOf",
                  "hasOwnProperty", "isPrototypeOf", "propertyIsEnumerable",
                  "__proto__", "__defineGetter__", "__defineSetter__",
                  "__lookupGetter__", "__lookupSetter__"}
\* Ids a caller passes to applyScenario: the catalog's, one inherited name and
\* one name SCENARIOS does not have.
ScenarioIds == ScenarioKeys \cup {"constructor", "no-such-scenario"}
\* The same with every inherited name.
AllScenarioIds == ScenarioIds \cup InheritedKeys

ScenarioName(id) ==
    CASE id = "population-growth" -> "Population +50%"
      [] id = "add-transit"       -> "Add Transit Line"
      [] id = "green-expansion"   -> "Green Expansion"
      [] id = "renewable-energy"  -> "100% Renewable"

\* The modifiers, on records of tenths.  x * 1.5 is 15x/10, x + 15 is x + 150.
PopulationGrowthModifier(city) ==
    [city EXCEPT !.population = (@ * 15) \div 10,
                 !.trafficDensity = (@ * 16) \div 10,
                 !.energyDemand = (@ * 14) \div 10]

AddTransitModifier(city) ==
    [city EXCEPT !.transitScore = @ + 150,
                 !.trafficDensity = (@ * 85) \div 100,
                 !.carbonFootprint = (@ * 9) \div 10]

GreenExpansionModifier(city) ==
    [city EXCEPT !.greenCoverage = @ + 100,
                 !.airQuality = @ + 120,
                 !.sustainabilityScore = @ + 80]

RenewableEnergyModifier(city) ==
    [city EXCEPT !.carbonFootprint = (@ * 3) \div 10,
                 !.energyEfficiency = @ + 200,
                 !.sustainabilityScore = @ + 150]

Modifier(id, city) ==
    CASE id = "population-growth" -> PopulationGrowthModifier(city)
      [] id = "add-transit"       -> AddTransitModifier(city)
      [] id = "green-expansion"   -> GreenExpansionModifier(city)
      [] id = "renewable-energy"  -> RenewableEnergyModifier(city)

\* Faulty variant: ?? in place of ||, an output of 0 is taken as it is
OrElseNullish(value, prior) == value

\* The || of the write-back: 0 (like NaN and undefined) is falsy, so the
\* prior value stands in for it.
OrElse(value, prior) == IF value = 0 THEN prior ELSE value

\* modifiedStats.k || prior: a field the modifier's output lacks reads as
\* undefined, which is falsy.
OutputOrPrior(m, k, prior) == IF k \in DOMAIN m THEN OrElse(m[k], prior) ELSE prior

\* The snapshot handed to a modifier, in tenths.
ModifierInput(s) ==
    [population          |-> 10 * s.population,
     sustainabilityScore |-> 10 * s.sustainabilityScore,
     carbonFootprint     |-> 10 * s.carbonFootprint,
     energyEfficiency    |-> 10 * s.energyEfficiency,
     greenCoverage       |-> 10 * s.greenCoverage,
     transitScore        |-> 10 * s.transitScore,
     walkability         |-> 10 * s.walkability,
     airQuality          |-> 10 * s.airQuality,
     trafficDensity      |-> 10 * SyntheticTrafficDensity,
     energyDemand        |-> 10 * s.energyConsumption]

\* Faulty variant: the upper clamp is missing
ClampRoundNoCeiling(m, k, prior) ==
    MathRound(Max(0, OutputOrPrior(m, k, 10 * prior)), 10)

\* Math.round(Math.min(100, Math.max(0, modifiedStats.k || prior))), on tenths
ClampRound(m, k, prior) ==
    MathRound(Min(1000, Max(0, OutputOrPrior(m, k, 10 * prior))), 10)

\* The seven fields applyScenario writes.
WrittenKeys == {"population", "sustainabilityScore", "carbonFootprint",
                "energyEfficiency", "transitScore", "walkability", "airQuality"}

WrittenFields(s, m) ==
    [k \in DOMAIN s |->
        IF k \in WrittenKeys
        THEN IF k \in {"population", "carbonFootprint"}
             THEN MathRound(OutputOrPrior(m, k, 10 * s[k]), 10)
             ELSE ClampRound(m, k, s[k])
        ELSE s[k]]

\* Faulty variant: greenCoverage is written back as well
WriteBackWithGreen(s, m) ==
    [WrittenFields(s, m) EXCEPT !.greenCoverage = ClampRound(m, "greenCoverage", s.greenCoverage)]

\* Object.assign(this.city.stats, {...}) of applyScenario
WriteBack(s, m) == WrittenFields(s, m)

\* Scenarios a caller adds to SCENARIOS, an exported object that applyScenario
\* reads at each call: for one written field, or for all seven, the modifier
\* sets the field to 0 ("zero") or returns the snapshot without it ("omit").
AddedKinds == {"zero", "omit"}
AddedTargets == WrittenKeys \cup {"all"}

AddedScenarios ==
    { [id |-> kind \o "-" \o target, kind |-> kind,
       fields |-> IF target = "all" THEN WrittenKeys ELSE {target}] :
        kind \in AddedKinds, target \in AddedTargets }

AddedKeys == {scenario.id : scenario \in AddedScenarios}

\* SCENARIOS[id].modifier(city) of an added scenario
AddedModifier(id, city) ==
    LET scenario == CHOOSE x \in AddedScenarios : x.id = id
    IN  IF scenario.kind = "zero"
        THEN [k \in DOMAIN city |-> IF k \in scenario.fields THEN 0 ELSE city[k]]
        ELSE [k \in DOMAIN city \ scenario.fields |-> city[k]]

\* ------------------------------------------------------- yearly projection
\* baseline.airQuality * (1 - 0.005 * e * 0.5) = airQuality * (400 - e) / 400
DegradedAirQuality(airQuality, elapsed) ==
    RoundDouble("airQuality", airQuality, elapsed,
                MathRound(airQuality * (400 - elapsed), 400))

\* baseline.walkability * (1 - 0.005 * e * 0.3) = walkability * (2000 - 3e) / 2000
DegradedWalkability(walkability, elapsed) ==
    RoundDouble("walkability", walkability, elapsed,
                MathRound(walkability * (2000 - 3 * elapsed), 2000))

\* Faulty variant: the two floors are missing
YearlyChangesUnfloored(s, b, yearsSinceBase) ==
    [s EXCEPT
       !.population = GrownPopulation(b.population, yearsSinceBase),
       !.airQuality = DegradedAirQuality(b.airQuality, yearsSinceBase),
       !.walkability = DegradedWalkability(b.walkability, yearsSinceBase),
       !.carbonFootprint = MathRound(2 * b.carbonFootprint + yearsSinceBase, 2)]

\* Faulty variant: the population compounds on the stored value, one year at a
\* time
YearlyChangesCompounding(s, b, yearsSinceBase) ==
    [s EXCEPT
       !.population = GrownPopulation(s.population, 1),
       !.airQuality = Max(MinAirQuality, DegradedAirQuality(b.airQuality, yearsSinceBase)),
       !.walkability = Max(MinWalkability, DegradedWalkability(b.walkability, yearsSinceBase)),
       !.carbonFootprint = MathRound(2 * b.carbonFootprint + yearsSinceBase, 2)]

\* The four assignments of applyYearlyChanges to statistics s, baseline b.
YearlyChanges(s, b, yearsSinceBase) ==
    [s EXCEPT
       !.population = GrownPopulation(b.population, yearsSinceBase),
       !.airQuality = Max(MinAirQuality, DegradedAirQuality(b.airQuality, yearsSinceBase)),
       !.walkability = Max(MinWalkability, DegradedWalkability(b.walkability, yearsSinceBase)),
       !.carbonFootprint = MathRound(2 * b.carbonFootprint + yearsSinceBase, 2)]

\* Faulty variant: the projection starts from the baseline record, not from the
\* current statistics
ApplyYearlyChangesOnBaseline(s, b, year) == YearlyChanges(b, b, year - baseYear)

\* Statistics s after applyYearlyChanges in year `year`, baseline b.
ApplyYearlyChanges(s, b, year) == YearlyChanges(s, b, year - baseYear)

\* Faulty variant: a backward step always recomputes the four fields
RevertYearlyChangesRecomputing(s, b, year) ==
    YearlyChanges(s, b, year - baseYear)

\* Statistics s after revertYearlyChanges in year `year`: Object.assign of the
\* baseline's keys at or before the baseline year.
RevertYearlyChanges(s, b, year) ==
    IF year - baseYear <= 0
    THEN [k \in DOMAIN s |-> IF k \in DOMAIN b THEN b[k] ELSE s[k]]
    ELSE ApplyYearlyChanges(s, b, year)

\* ---------------------------------------------------------------- state
VARIABLES
    stats,                 \* city.stats
    distribution,          \* city.distribution
    baselineStats,         \* this.baselineStats
    baselineDistribution,  \* this.baselineDistribution
    currentYear,           \* this.currentYear
    isRunning,             \* this.isRunning
    scenarios,             \* this.scenarios, the applied-scenario history
    runs,                  \* the simulateTo invocations suspended in await sleep
    call,                  \* the last call or resumption, what it returned and
                           \* the onUpdate invocations it made
    stopRequested          \* runs suspended when stop() was called, no
                           \* simulateTo call since

vars == <<stats, distribution, baselineStats, baselineDistribution, currentYear,
          isRunning, scenarios, runs, call, stopRequested>>

engine == <<stats, distribution, baselineStats, baselineDistribution, currentYear,
            isRunning, scenarios>>

\* A run of simulateTo: where it is, its target and direction, and the year it
\* passed to its latest onUpdate.
Idle == [pc |-> "idle", targetYear |-> baseYear, direction |-> 1, lastYear |-> baseYear]

\* A call or resumption: the operation, its scenario id, the run it started or
\* resumed (0: none), how it went, the value it returned (<<>>: null or
\* nothing, <<v>>: v) and the <<year, statistics>> it passed to onUpdate.
Call(op, id, run, outcome, ret, cb) ==
    [op |-> op, id |-> id, run |-> run, outcome |-> outcome, ret |-> ret, cb |-> cb]

\* new Simulator(cityModel): constructor and saveBaseline
Init ==
    /\ stats \in Baselines
    /\ distribution \in BaselineDistributions
    /\ baselineStats = stats
    /\ baselineDistribution = distribution
    /\ currentYear = baseYear
    /\ isRunning = FALSE
    /\ scenarios = <<>>
    /\ runs = [i \in Runs |-> Idle]
    /\ call = Call("new", "", 0, "done", <<>>, <<>>)
    /\ stopRequested = {}

\* applyYearlyChanges() called by itself: the four fields are recomputed for
\* the year the engine is in.
ApplyYearlyChangesCall ==
    /\ stats' = ApplyYearlyChanges(stats, baselineStats, currentYear)
    /\ call' = Call("applyYearlyChanges", "", 0, "done", <<>>, <<>>)
    /\ UNCHANGED <<distribution, baselineStats, baselineDistribution, currentYear,
                   isRunning, scenarios, runs, stopRequested>>

\* revertYearlyChanges() called by itself.
RevertYearlyChangesCall ==
    /\ stats' = RevertYearlyChanges(stats, baselineStats, currentYear)
    /\ call' = Call("revertYearlyChanges", "", 0, "done", <<>>, <<>>)
    /\ UNCHANGED <<distribution, baselineStats, baselineDistribution, currentYear,
                   isRunning, scenarios, runs, stopRequested>>

\* saveBaseline(): the snapshots become copies of the city as it is now.
SaveBaseline ==
    /\ baselineStats' = stats
    /\ baselineDistribution' = distribution
    /\ call' = Call("saveBaseline", "", 0, "done", <<>>, <<>>)
    /\ UNCHANGED <<stats, distribution, currentYear, isRunning, scenarios, runs,
                   stopRequested>>

\* Faulty variant: the reset saves the baseline again before it restores it
ResetSavingBaseline ==
    /\ currentYear' = baseYear
    /\ baselineStats' = stats
    /\ baselineDistribution' = distribution
    /\ stats' = baselineStats'
    /\ distribution' = baselineDistribution'
    /\ scenarios' = <<>>
    /\ isRunning' = FALSE
    /\ call' = Call("reset", "", 0, "done", <<>>, <<>>)
    /\ UNCHANGED <<runs, stopRequested>>

\* Faulty variant: the history survives the reset
ResetKeepsHistory ==
    /\ currentYear' = baseYear
    /\ stats' = baselineStats
    /\ distribution' = baselineDistribution
    /\ isRunning' = FALSE
    /\ call' = Call("reset", "", 0, "done", <<>>, <<>>)
    /\ UNCHANGED <<baselineStats, baselineDistribution, scenarios, runs, stopRequested>>

\* Faulty variant: the running flag survives the reset
ResetLeavesFlag ==
    /\ currentYear' = baseYear
    /\ stats' = baselineStats
    /\ distribution' = baselineDistribution
    /\ scenarios' = <<>>
    /\ call' = Call("reset", "", 0, "done", <<>>, <<>>)
    /\ UNCHANGED <<baselineStats, baselineDistribution, isRunning, runs, stopRequested>>

\* reset()
Reset ==
    /\ currentYear' = baseYear
    /\ stats' = baselineStats
    /\ distribution' = baselineDistribution
    /\ scenarios' = <<>>
    /\ isRunning' = FALSE
    /\ call' = Call("reset", "", 0, "done", <<>>, <<>>)
    /\ UNCHANGED <<baselineStats, baselineDistribution, runs, stopRequested>>

\* Faulty variant: the record goes to the front of the history
ApplyKnownPrepending(id) ==
    /\ id \in ScenarioKeys
    /\ stats' = WriteBack(stats, Modifier(id, ModifierInput(stats)))
    /\ scenarios' = <<[id |-> id, name |-> ScenarioName(id), appliedAt |-> currentYear]>>
                      \o scenarios
    /\ call' = Call("applyScenario", id, 0, "applied",
                    <<[before |-> stats, after |-> stats', scenario |-> id]>>, <<>>)
    /\ UNCHANGED <<distribution, baselineStats, baselineDistribution, currentYear,
                   isRunning, runs, stopRequested>>

\* applyScenario(id) for an own key of SCENARIOS
ApplyKnown(id) ==
    /\ id \in ScenarioKeys
    /\ stats' = WriteBack(stats, Modifier(id, ModifierInput(stats)))
    /\ scenarios' = Append(scenarios,
                           [id |-> id, name |-> ScenarioName(id), appliedAt |-> currentYear])
    /\ call' = Call("applyScenario", id, 0, "applied",
                    <<[before |-> stats, after |-> stats', scenario |-> id]>>, <<>>)
    /\ UNCHANGED <<distribution, baselineStats, baselineDistribution, currentYear,
                   isRunning, runs, stopRequested>>

\* applyScenario(id) for any other id: SCENARIOS[id] is undefined and the call
\* returns null, or it is an inherited property without a modifier and
\* scenario.modifier(...) throws a TypeError before anything is written.
ApplyUnknown(id) ==
    /\ id \notin ScenarioKeys
    /\ call' = Call("applyScenario", id, 0,
                    IF id \in InheritedKeys THEN "threw" ELSE "null", <<>>, <<>>)
    /\ UNCHANGED <<engine, runs, stopRequested>>

ApplyScenario(id) == ApplyKnown(id) \/ ApplyUnknown(id)

\* applyScenario(id) for a scenario the caller has added to SCENARIOS under
\* id, with the id as its name.
ApplyAdded(id) ==
    /\ id \in AddedKeys
    /\ stats' = WriteBack(stats, AddedModifier(id, ModifierInput(stats)))
    /\ scenarios' = Append(scenarios, [id |-> id, name |-> id, appliedAt |-> currentYear])
    /\ call' = Call("applyScenario", id, 0, "applied",
                    <<[before |-> stats, after |-> stats', scenario |-> id]>>, <<>>)
    /\ UNCHANGED <<distribution, baselineStats, baselineDistribution, currentYear,
                   isRunning, runs, stopRequested>>

\* One iteration of the loop of simulateTo up to its await: the year moves,
\* the statistics follow, onUpdate gets the year and a copy.
YearStep(direction) ==
    /\ currentYear' = currentYear + direction
    /\ stats' = IF direction > 0
                THEN ApplyYearlyChanges(stats, baselineStats, currentYear')
                ELSE RevertYearlyChanges(stats, baselineStats, currentYear')

\* simulateTo past its guard: the loop is skipped when the year is the target
\* already, or runs its first iteration and suspends.
SimulateStart(targetYear) ==
    LET direction == IF targetYear > currentYear THEN 1 ELSE -1
        free == {i \in Runs : runs[i].pc = "idle"}
    IN  IF currentYear = targetYear
        THEN /\ isRunning' = FALSE
             /\ call' = Call("simulateTo", "", 0, "arrived", <<>>, <<>>)
             /\ stopRequested' = {}
             /\ UNCHANGED <<stats, distribution, baselineStats, baselineDistribution,
                            currentYear, scenarios, runs>>
        ELSE /\ free # {}
             /\ LET i == CHOOSE j \in free : \A k \in free : j <= k
                IN  /\ YearStep(direction)
                    /\ isRunning' = TRUE
                    /\ runs' = [runs EXCEPT ![i] = [pc |-> "sleeping",
                                                    targetYear |-> targetYear,
                                                    direction |-> direction,
                                                    lastYear |-> currentYear']]
                    /\ call' = Call("simulateTo", "", i, "step", <<>>,
                                    <<<<currentYear', stats'>>>>)
             /\ stopRequested' = {}
             /\ UNCHANGED <<distribution, baselineStats, baselineDistribution, scenarios>>

\* Faulty variant: no re-entrancy guard
SimulateToUnguarded(targetYear) == SimulateStart(targetYear)

\* simulateTo(targetYear, onUpdate), from the call to its first await or return
SimulateTo(targetYear) ==
    IF isRunning
    THEN /\ call' = Call("simulateTo", "", 0, "ignored", <<>>, <<>>)
         /\ stopRequested' = {}
         /\ UNCHANGED <<engine, runs>>
    ELSE SimulateStart(targetYear)

\* The loop of run i is left: the running flag is cleared.
LeaveLoop(i) ==
    /\ isRunning' = FALSE
    /\ runs' = [runs EXCEPT ![i] = Idle]
    /\ call' = Call("resume", "", i,
                    IF currentYear = runs[i].targetYear THEN "arrived" ELSE "cancelled",
                    <<>>, <<>>)
    /\ UNCHANGED <<stats, distribution, baselineStats, baselineDistribution,
                   currentYear, scenarios, stopRequested>>

\* The next iteration of the loop of run i, up to its await.
NextIteration(i) ==
    /\ YearStep(runs[i].direction)
    /\ runs' = [runs EXCEPT ![i].lastYear = currentYear']
    /\ call' = Call("resume", "", i, "step", <<>>, <<<<currentYear', stats'>>>>)
    /\ UNCHANGED <<distribution, baselineStats, baselineDistribution, isRunning,
                   scenarios, stopRequested>>

\* Faulty variant: the loop does not look at the running flag
ResumeIgnoringStop(i) ==
    /\ runs[i].pc = "sleeping"
    /\ IF currentYear # runs[i].targetYear THEN NextIteration(i) ELSE LeaveLoop(i)

\* The pacing delay of run i is over: the loop condition is evaluated, and
\* either the next iteration runs up to its await or the loop is left.
Resume(i) ==
    /\ runs[i].pc = "sleeping"
    /\ IF currentYear # runs[i].targetYear /\ isRunning
       THEN NextIteration(i)
       ELSE LeaveLoop(i)

\* stop()
Stop ==
    /\ isRunning' = FALSE
    /\ stopRequested' = {i \in Runs : runs[i].pc = "sleeping"}
    /\ call' = Call("stop", "", 0, "done", <<>>, <<>>)
    /\ UNCHANGED <<stats, distribution, baselineStats, baselineDistribution, currentYear,
                   scenarios, runs>>

\* ------------------------------------------------------------- queries
\* The object getProjection returns for baseline b.  sustainabilityScore and
\* carbonFootprint are not rounded and move in steps of 0.5 a year: they are
\* given in halves, the integer 2 * x stands for x.
Projection(b, targetYear) ==
    LET yearsSinceBase == targetYear - baseYear
    IN  [year |-> targetYear,
         population |-> GrownPopulation(b.population, yearsSinceBase),
         sustainabilityScore |-> Max(0, 2 * b.sustainabilityScore - yearsSinceBase),
         carbonFootprint |-> 2 * b.carbonFootprint + yearsSinceBase]

\* Faulty variant: the preview starts from the live statistics
GetProjectionOfCurrent(targetYear) ==
    /\ call' = Call("getProjection", "", 0, "done", <<Projection(stats, targetYear)>>, <<>>)
    /\ UNCHANGED <<engine, runs, stopRequested>>

\* getProjection(targetYear)
GetProjection(targetYear) ==
    /\ call' = Call("getProjection", "", 0, "done",
                    <<Projection(baselineStats, targetYear)>>, <<>>)
    /\ UNCHANGED <<engine, runs, stopRequested>>

\* Array.prototype.sort((a, b) => a.year - b.year): ascending by year, and
\* stable, so events of the same year keep the order they were listed in.
RECURSIVE InsertByYear(_, _)
InsertByYear(sorted, event) ==
    IF sorted = <<>>
    THEN <<event>>
    ELSE IF event.year < Head(sorted).year
         THEN <<event>> \o sorted
         ELSE <<Head(sorted)>> \o InsertByYear(Tail(sorted), event)

RECURSIVE SortByYear(_)
SortByYear(events) ==
    IF events = <<>>
    THEN <<>>
    ELSE InsertByYear(SortByYear(SubSeq(events, 1, Len(events) - 1)), events[Len(events)])

\* The array getTimeline builds, before the sort.
TimelineEvents ==
    <<[year |-> baseYear, event |-> "Baseline", type |-> "start"]>>
    \o [i \in 1..Len(scenarios) |->
           [year |-> scenarios[i].appliedAt, event |-> scenarios[i].name, type |-> "scenario"]]
    \o <<[year |-> currentYear, event |-> "Current", type |-> "current"]>>

\* Faulty variant: the array is returned as built
GetTimelineUnsorted ==
    /\ call' = Call("getTimeline", "", 0, "done", <<TimelineEvents>>, <<>>)
    /\ UNCHANGED <<engine, runs, stopRequested>>

\* getTimeline()
GetTimeline ==
    /\ call' = Call("getTimeline", "", 0, "done", <<SortByYear(TimelineEvents)>>, <<>>)
    /\ UNCHANGED <<engine, runs, stopRequested>>

\* ------------------------------------------------------------- metrics
\* METRIC_THRESHOLDS.sustainability
SustainabilityThresholds == [poor |-> 40, fair |-> 60, good |-> 75, excellent |-> 90]

\* Faulty variant: the poor threshold opens a bucket of its own
SustainabilityRatingWithPoor(score) ==
    LET t == SustainabilityThresholds
    IN  IF score >= t.excellent THEN "excellent"
        ELSE IF score >= t.good THEN "good"
        ELSE IF score >= t.fair THEN "fair"
        ELSE IF score >= t.poor THEN "poor"
        ELSE "critical"

\* The rating Metrics.getSustainabilityRating gives a score.
SustainabilityRating(score) ==
    LET t == SustainabilityThresholds
    IN  IF score >= t.excellent THEN "excellent"
        ELSE IF score >= t.good THEN "good"
        ELSE IF score >= t.fair THEN "fair"
        ELSE "poor"

\* getSustainabilityRating()
GetSustainabilityRating ==
    /\ call' = Call("getSustainabilityRating", "", 0, "done",
                    <<SustainabilityRating(stats.sustainabilityScore)>>, <<>>)
    /\ UNCHANGED <<engine, runs, stopRequested>>

\* The zones of the chart, in the order of the code, with ZONE_TYPES[zone].name
\* and ZONE_TYPES[zone].color.
ChartZones == <<"residential", "commercial", "industrial", "green", "transit", "road">>

ZoneName(zone) ==
    CASE zone = "residential" -> "Residential"
      [] zone = "commercial"  -> "Commercial"
      [] zone = "industrial"  -> "Industrial"
      [] zone = "green"       -> "Green Space"
      [] zone = "transit"     -> "Transit Hub"
      [] zone = "road"        -> "Road"

ZoneColor(zone) ==
    CASE zone = "residential" -> "#3b82f6"
      [] zone = "commercial"  -> "#f59e0b"
      [] zone = "industrial"  -> "#6b7280"
      [] zone = "green"       -> "#22c55e"
      [] zone = "transit"     -> "#ec4899"
      [] zone = "road"        -> "#374151"

\* Object.values(d).reduce((a, b) => a + b, 0)
RECURSIVE SumOfValues(_, _)
SumOfValues(d, keys) ==
    IF keys = {}
    THEN 0
    ELSE LET k == CHOOSE x \in keys : TRUE
         IN  d[k] + SumOfValues(d, keys \ {k})

\* Shares count / total, in lowest terms, for which (count / total) * 100 is
\* k + 1/2 exactly and just below it in doubles: 14.5, 28.5, 56.5 and 57.5.
\* Complete: a tie needs count / total = odd / 200.
ShareBelowHalf == {<<29, 200>>, <<57, 200>>, <<113, 200>>, <<23, 40>>}

\* Math.round((count / total) * 100)
ZoneShare(count, total) ==
    IF \E f \in ShareBelowHalf : count * f[2] = total * f[1]
    THEN MathRound(100 * count, total) - 1
    ELSE MathRound(100 * count, total)

\* The chart data of distribution d with denominator total.
ChartOf(d, total) ==
    LET shown == SelectSeq(ChartZones, LAMBDA zone : d[zone] > 0)
    IN  [labels |-> [i \in 1..Len(shown) |-> ZoneName(shown[i])],
         data   |-> [i \in 1..Len(shown) |-> ZoneShare(d[shown[i]], total)],
         colors |-> [i \in 1..Len(shown) |-> ZoneColor(shown[i])]]

\* Faulty variant: the empty cells stay in the denominator
ZoneDistributionOverAllCells(d) ==
    LET total == SumOfValues(d, DOMAIN d)
    IN  IF total = 0
        THEN [labels |-> <<>>, data |-> <<>>, colors |-> <<>>]
        ELSE ChartOf(d, total)

\* What Metrics.getZoneDistribution returns for distribution d.
ZoneDistribution(d) ==
    LET total == SumOfValues(d, DOMAIN d) - d.empty
    IN  IF total = 0
        THEN [labels |-> <<>>, data |-> <<>>, colors |-> <<>>]
        ELSE ChartOf(d, total)

\* getZoneDistribution()
GetZoneDistribution ==
    /\ call' = Call("getZoneDistribution", "", 0, "done",
                    <<ZoneDistribution(distribution)>>, <<>>)
    /\ UNCHANGED <<engine, runs, stopRequested>>

\* The rules of Metrics.getRecommendations, in the order the code tests them.
RecommendationRules == <<"green", "transit", "walkability", "industry">>

\* The condition of a rule on statistics s and distribution d.
RuleHolds(rule, s, d) ==
    CASE rule = "green"       -> s.greenCoverage < 25
      [] rule = "transit"     -> s.transitScore < 60
      [] rule = "walkability" -> s.walkability < 50
      [] rule = "industry"    -> d.industrial > d.green

\* The entry a rule pushes.
RuleEntry(rule) ==
    CASE rule = "green" ->
           [title       |-> "Increase Green Spaces",
            description |-> "Add more parks and green areas to improve air quality and sustainability.",
            impact      |-> "+10 Sustainability, +15 Air Quality"]
      [] rule = "transit" ->
           [title       |-> "Expand Public Transit",
            description |-> "Add transit hubs and metro lines to reduce car dependency.",
            impact      |-> "+12 Transit Score, -8% Carbon"]
      [] rule = "walkability" ->
           [title       |-> "Improve Walkability",
            description |-> "Create pedestrian zones and mixed-use neighborhoods.",
            impact      |-> "+15 Walkability, +8 Sustainability"]
      [] rule = "industry" ->
           [title       |-> "Balance Industry & Nature",
            description |-> "Convert some industrial zones to green spaces.",
            impact      |-> "-15% Carbon, +12 Air Quality"]

\* Faulty variant: the thresholds are inclusive
RecommendationsInclusive(s, d) ==
    LET fired == SelectSeq(RecommendationRules, LAMBDA rule :
                     CASE rule = "green"       -> s.greenCoverage <= 25
                       [] rule = "transit"     -> s.transitScore <= 60
                       [] rule = "walkability" -> s.walkability <= 50
                       [] rule = "industry"    -> d.industrial >= d.green)
    IN  [i \in 1..Len(fired) |-> RuleEntry(fired[i])]

\* What Metrics.getRecommendations returns for statistics s and distribution d.
Recommendations(s, d) ==
    LET fired == SelectSeq(RecommendationRules, LAMBDA rule : RuleHolds(rule, s, d))
    IN  [i \in 1..Len(fired) |-> RuleEntry(fired[i])]

\* getRecommendations()
GetRecommendations ==
    /\ call' = Call("getRecommendations", "", 0, "done",
                    <<Recommendations(stats, distribution)>>, <<>>)
    /\ UNCHANGED <<engine, runs, stopRequested>>

\* ------------------------------------------------------------ the callers
\* The calls of a caller are kept within bounds by these conditions; the
\* operations themselves are the code's.
Suspended == {i \in Runs : runs[i].pc = "sleeping"}

\* applyScenario would add a record: the history has room for it
MayApply(id, maxHistory) == id \in ScenarioKeys => Len(scenarios) < maxHistory

\* simulateTo would start a loop: fewer than maxRuns are suspended
MaySimulate(targetYear, maxRuns) ==
    (~isRunning /\ currentYear # targetYear) => Cardinality(Suspended) < maxRuns

\* run i would step: the year stepped to is one of `years`
MayResume(i, years) ==
    (currentYear # runs[i].targetYear /\ isRunning)
        => currentYear + runs[i].direction \in years

\* Any caller that starts no loop of simulateTo while another is suspended.
Next ==
    \/ \E id \in ScenarioIds : MayApply(id, MaxHistory) /\ ApplyScenario(id)
    \/ \E targetYear \in Years : MaySimulate(targetYear, 1) /\ SimulateTo(targetYear)
    \/ \E i \in Runs : MayResume(i, Years) /\ Resume(i)
    \/ Stop
    \/ Reset

Spec == Init /\ [][Next]_vars

\* A caller that starts simulateTo while earlier invocations are suspended,
\* and applies no scenario, in the larger of the two cities.
InitOverlap == Init /\ \A b \in Baselines : b.population <= stats.population

NextOverlap ==
    \/ \E targetYear \in Years : MaySimulate(targetYear, MaxRuns) /\ SimulateTo(targetYear)
    \/ \E i \in Runs : MayResume(i, Years) /\ Resume(i)
    \/ Stop
    \/ Reset

SpecOverlap == InitOverlap /\ [][NextOverlap]_vars

\* saveBaseline would take a new snapshot: the snapshot in place is still the
\* one of construction, so a caller replaces it once.
MaySave == baselineStats \in Baselines

\* A caller that also calls saveBaseline(), applyYearlyChanges() and
\* revertYearlyChanges() by themselves: it applies population-growth and looks
\* ahead.
RebaseIds == {"population-growth", "no-such-scenario"}
RebaseYears == baseYear..(baseYear + MaxAhead)

NextRebase ==
    \/ \E id \in RebaseIds : MayApply(id, MaxHistory) /\ ApplyScenario(id)
    \/ \E targetYear \in RebaseYears : MaySimulate(targetYear, 1) /\ SimulateTo(targetYear)
    \/ \E i \in Runs : MayResume(i, RebaseYears) /\ Resume(i)
    \/ Stop
    \/ Reset
    \/ MaySave /\ SaveBaseline
    \/ ApplyYearlyChangesCall
    \/ RevertYearlyChangesCall

SpecRebase == Init /\ [][NextRebase]_vars

\* The overlapping caller when it never calls reset().
NextNoReset ==
    \/ \E targetYear \in Years : MaySimulate(targetYear, MaxRuns) /\ SimulateTo(targetYear)
    \/ \E i \in Runs : MayResume(i, Years) /\ Resume(i)
    \/ Stop

SpecNoReset == InitOverlap /\ [][NextNoReset]_vars

\* The same caller under a fair timer: the pacing delay of a suspended run
\* ends, so a run that can resume does resume.  The condition is on Resume
\* itself, not on the caller's year range: a behaviour in which a run waits
\* forever at the edge of the range is not a fair one.
SpecOverlapFair == SpecOverlap /\ \A i \in Runs : WF_vars(Resume(i))

\* A caller that only travels in time, further back than the others.
RewindYears == (baseYear - MaxRewind)..(baseYear + MaxAhead)

NextRewind ==
    \/ \E targetYear \in RewindYears : MaySimulate(targetYear, 1) /\ SimulateTo(targetYear)
    \/ \E i \in Runs : MayResume(i, RewindYears) /\ Resume(i)
    \/ Stop
    \/ Reset

SpecRewind == Init /\ [][NextRewind]_vars

\* A caller that only looks ahead, up to MaxHorizon years past the baseline year.
HorizonYears == baseYear..(baseYear + MaxHorizon)

NextHorizon ==
    \/ \E targetYear \in HorizonYears : MaySimulate(targetYear, 1) /\ SimulateTo(targetYear)
    \/ \E i \in Runs : MayResume(i, HorizonYears) /\ Resume(i)
    \/ Stop
    \/ Reset

SpecHorizon == Init /\ [][NextHorizon]_vars

\* Cities whose air quality and walkability start at or below the floors of
\* the yearly recompute, simulated from a year before the baseline year to a
\* decade after it by a caller that also calls applyYearlyChanges() and
\* revertYearlyChanges() by themselves.
DecliningCities ==
    { [b EXCEPT !.airQuality = a, !.walkability = w] :
        b \in Baselines, a \in {0, 20, 30}, w \in {0, 10, 21} }

DeclineYears == (baseYear - MaxBack)..(baseYear + MaxHorizon)

InitDecline ==
    /\ stats \in DecliningCities
    /\ distribution \in BaselineDistributions
    /\ baselineStats = stats
    /\ baselineDistribution = distribution
    /\ currentYear = baseYear
    /\ isRunning = FALSE
    /\ scenarios = <<>>
    /\ runs = [i \in Runs |-> Idle]
    /\ call = Call("new", "", 0, "done", <<>>, <<>>)
    /\ stopRequested = {}

NextDecline ==
    \/ \E targetYear \in DeclineYears : MaySimulate(targetYear, 1) /\ SimulateTo(targetYear)
    \/ \E i \in Runs : MayResume(i, DeclineYears) /\ Resume(i)
    \/ Stop
    \/ Reset
    \/ ApplyYearlyChangesCall
    \/ RevertYearlyChangesCall

SpecDecline == InitDecline /\ [][NextDecline]_vars

\* A planner: applies up to MaxRecords scenarios out of two, travels between
\* the baseline year and MaxBack years before it, and asks for projections and
\* the timeline.
PlannerIds == {"add-transit", "green-expansion", "no-such-scenario"}
PlannerYears == (baseYear - MaxBack)..baseYear

NextPlanner ==
    \/ \E id \in PlannerIds : MayApply(id, MaxRecords) /\ ApplyScenario(id)
    \/ \E targetYear \in PlannerYears : MaySimulate(targetYear, 1) /\ SimulateTo(targetYear)
    \/ \E i \in Runs : MayResume(i, PlannerYears) /\ Resume(i)
    \/ Stop
    \/ Reset
    \/ \E targetYear \in Years : GetProjection(targetYear)
    \/ GetTimeline

SpecPlanner == Init /\ [][NextPlanner]_vars

\* A caller that applies scenarios to cities of all kinds.
ScenarioInputs ==
    { [population |-> p, sustainabilityScore |-> v, carbonFootprint |-> c,
       energyEfficiency |-> (v + 20) % 101, greenCoverage |-> (v + 40) % 101,
       transitScore |-> (v + 60) % 101, walkability |-> (v + 80) % 101,
       airQuality |-> 100 - v, energyConsumption |-> p \div 100] :
      v \in 0..100, c \in {-15, 0, 10}, p \in {0, 1001} }

InitScenario ==
    /\ stats \in ScenarioInputs
    /\ distribution \in BaselineDistributions
    /\ baselineStats = stats
    /\ baselineDistribution = distribution
    /\ currentYear = baseYear
    /\ isRunning = FALSE
    /\ scenarios = <<>>
    /\ runs = [i \in Runs |-> Idle]
    /\ call = Call("new", "", 0, "done", <<>>, <<>>)
    /\ stopRequested = {}

NextScenario ==
    \/ \E id \in AllScenarioIds : MayApply(id, MaxHistory) /\ ApplyScenario(id)
    \/ Reset

SpecScenario == InitScenario /\ [][NextScenario]_vars

\* A caller that has added the scenarios of AddedScenarios to the catalog and
\* applies them and the catalog's own to the same cities.
NextWriteBack ==
    \/ \E id \in ScenarioIds : MayApply(id, MaxHistory) /\ ApplyScenario(id)
    \/ \E id \in AddedKeys : Len(scenarios) < MaxHistory /\ ApplyAdded(id)
    \/ Reset

SpecWriteBack == InitScenario /\ [][NextWriteBack]_vars

\* A surveyor: reads the rating, the zone chart and the recommendations of cities of all scores and
\* of all small zone counts, of the city of BaselineDistributions and of a
\* city with 23 of its 40 built cells residential.
ZoneInputs ==
    [ZoneKinds -> 0..MaxCount]
    \cup BaselineDistributions
    \cup { [empty |-> 60, residential |-> 23, commercial |-> 0, industrial |-> 0,
            green |-> 0, transit |-> 0, road |-> 17] }

\* Cities on and beside the thresholds of the recommendation rules, with
\* industrial cells fewer than, as many as and more than the green ones.
RecommendationInputs ==
    { [b EXCEPT !.greenCoverage = g, !.transitScore = t, !.walkability = w] :
        b \in Baselines, g \in {20, 24, 25}, t \in {59, 60, 70}, w \in {49, 50, 70} }

IndustryInputs ==
    { [d EXCEPT !.industrial = i, !.green = g] :
        d \in BaselineDistributions, i \in 0..MaxCount, g \in 0..MaxCount }

InitSurvey ==
    /\ \/ stats \in ScenarioInputs /\ distribution \in BaselineDistributions
       \/ stats \in Baselines /\ distribution \in ZoneInputs
       \/ stats \in RecommendationInputs /\ distribution \in IndustryInputs
    /\ baselineStats = stats
    /\ baselineDistribution = distribution
    /\ currentYear = baseYear
    /\ isRunning = FALSE
    /\ scenarios = <<>>
    /\ runs = [i \in Runs |-> Idle]
    /\ call = Call("new", "", 0, "done", <<>>, <<>>)
    /\ stopRequested = {}

NextSurvey ==
    \/ GetSustainabilityRating
    \/ GetZoneDistribution
    \/ GetRecommendations

SpecSurvey == InitSurvey /\ [][NextSurvey]_vars

\* ---------------------------------------------------------------- claims
\* What the step just taken was, read off the call it recorded.
AppliedKnown == call'.op = "applyScenario" /\ call'.id \in ScenarioKeys
YearStepped == call'.op \in {"simulateTo", "resume"} /\ currentYear' # currentYear

\* C1: for every scenario id that is not a key of the catalog, applyScenario
\* returns null and leaves the statistics, the history, currentYear and the
\* running flag as they were.
C1_UnknownIdReturnsNull ==
    [][(call'.op = "applyScenario" /\ call'.id \notin ScenarioKeys)
         => /\ call'.outcome = "null"
            /\ call'.ret = <<>>
            /\ stats' = stats
            /\ scenarios' = scenarios
            /\ currentYear' = currentYear
            /\ isRunning' = isRunning]_vars

\* C2: with a baseline of integers whose bounded metrics lie in 0..100, every
\* bounded metric of the statistics is an integer in 0..100 after any
\* applyScenario calls and year steps, also below the baseline year.
C2_BoundedMetricsInRange == \A k \in BoundedKeys : stats[k] \in 0..100

\* C3: reset() sets currentYear to the baseline year, the statistics and the
\* distribution to the baseline snapshot, the history to empty and the running
\* flag to false; a second reset() right after it changes nothing.
C3_ResetRestoresBaseline ==
    [][call'.op = "reset"
         => /\ currentYear' = baseYear
            /\ stats' = baselineStats
            /\ distribution' = baselineDistribution
            /\ scenarios' = <<>>
            /\ isRunning' = FALSE
            /\ call.op = "reset" => UNCHANGED engine]_vars

\* reset() was called while a run that had stepped the year was suspended,
\* after a saveBaseline() had replaced the snapshot of construction
C3_Witness ==
    /\ call.op = "reset"
    /\ Suspended # {}
    /\ baselineStats \notin Baselines
    /\ stats = baselineStats

\* C4: a simulateTo call made while the running flag is true changes neither
\* currentYear, the statistics, the running flag nor the history, invokes no
\* onUpdate, and leaves the suspended runs with their targets.
C4_ReentrantCallIsNoOp ==
    [][(isRunning /\ call'.op = "simulateTo")
         => /\ UNCHANGED <<engine, runs>>
            /\ call'.cb = <<>>]_vars

\* simulateTo was called, and ignored, while a run was suspended
C4_Witness ==
    /\ call.op = "simulateTo"
    /\ call.outcome = "ignored"
    /\ isRunning
    /\ Suspended # {}

\* C5: at most one simulateTo loop is active at any time, whatever calls are
\* made during the pacing delays.
C5_AtMostOneLoop == Cardinality(Suspended) <= 1

\* C6: when every simulateTo run has ended and no scenario was applied, the
\* population, airQuality, walkability and carbonFootprint of year Y are those
\* a single simulateTo(Y) gives a fresh engine: the formulas' values above the
\* baseline year, the baseline's at or below it.
C6_PathIndependent ==
    LET direct == IF currentYear > baseYear
                  THEN ApplyYearlyChanges(baselineStats, baselineStats, currentYear)
                  ELSE baselineStats
    IN  (Suspended = {} /\ scenarios = <<>>)
            => \A k \in {"population", "airQuality", "walkability", "carbonFootprint"} :
                   stats[k] = direct[k]

\* C7: a year step always completes its statistics update and passes the new
\* year and statistics to onUpdate; a run that was suspended when stop() was
\* called, with no simulateTo call since, changes neither currentYear nor the
\* statistics and invokes no onUpdate when it resumes.
C7_StopIsCooperative ==
    [][/\ YearStepped
          => /\ call'.cb = <<<<currentYear', stats'>>>>
             /\ stats' = IF currentYear' > currentYear
                         THEN ApplyYearlyChanges(stats, baselineStats, currentYear')
                         ELSE RevertYearlyChanges(stats, baselineStats, currentYear')
       /\ (call'.op = "resume" /\ call'.run \in stopRequested)
          => /\ currentYear' = currentYear
             /\ stats' = stats
             /\ call'.cb = <<>>]_vars

\* a run stopped short of its target has resumed and left its loop
C7_Witness ==
    /\ call.op = "resume"
    /\ call.outcome = "cancelled"
    /\ call.run \in stopRequested

\* C8 as stated: applyScenario with a known id changes neither the stored
\* carbonFootprint nor the stored greenCoverage.
C8_CarbonAndGreenUntouched ==
    [][AppliedKnown
         => /\ stats'.carbonFootprint = stats.carbonFootprint
            /\ stats'.greenCoverage = stats.greenCoverage]_vars

\* C8 amended: applyScenario with a known id changes neither greenCoverage nor
\* energyConsumption; carbonFootprint is written back like the six other
\* fields: add-transit stores round(0.9 x carbonFootprint), renewable-energy
\* round(0.3 x carbonFootprint), the other scenarios leave it as it was.
C8_GreenUntouchedCarbonWritten ==
    [][AppliedKnown
         => /\ stats'.greenCoverage = stats.greenCoverage
            /\ stats'.energyConsumption = stats.energyConsumption
            /\ stats'.carbonFootprint =
                   CASE call'.id = "add-transit" -> MathRound(9 * stats.carbonFootprint, 10)
                     [] call'.id = "renewable-energy" -> MathRound(3 * stats.carbonFootprint, 10)
                     [] OTHER -> stats.carbonFootprint]_vars

\* add-transit was applied to carbonFootprint 10 and greenCoverage above 0: 9 is stored
C8_Witness ==
    /\ call.op = "applyScenario"
    /\ call.id = "add-transit"
    /\ call.ret # <<>>
    /\ call.ret[1].before.carbonFootprint = 10
    /\ call.ret[1].before.greenCoverage > 0
    /\ stats.carbonFootprint = 9

\* C9: for a known scenario each of sustainabilityScore, energyEfficiency,
\* transitScore, walkability and airQuality is stored as
\* round(min(100, max(0, modifier output))) and population as round(modifier
\* output): add-transit stores min(100, transitScore + 15), green-expansion
\* min(100, airQuality + 12) and min(100, sustainabilityScore + 8),
\* renewable-energy min(100, energyEfficiency + 20) and
\* min(100, sustainabilityScore + 15), population-growth round(1.5 x population).
C9_ClampedWriteBack ==
    [][AppliedKnown
         => LET id == call'.id
                Clamp(x) == Min(100, Max(0, x))
                Plus(k) == CASE id = "add-transit" /\ k = "transitScore" -> 15
                             [] id = "green-expansion" /\ k = "airQuality" -> 12
                             [] id = "green-expansion" /\ k = "sustainabilityScore" -> 8
                             [] id = "renewable-energy" /\ k = "energyEfficiency" -> 20
                             [] id = "renewable-energy" /\ k = "sustainabilityScore" -> 15
                             [] OTHER -> 0
            IN  /\ \A k \in BoundedKeys \ {"greenCoverage"} :
                       stats'[k] = Clamp(stats[k] + Plus(k))
                /\ stats'.population = IF id = "population-growth"
                                       THEN MathRound(3 * stats.population, 2)
                                       ELSE stats.population]_vars

\* add-transit took transitScore 50 to 65, or a transitScore above 85 to 100
C9_Witness ==
    /\ call.op = "applyScenario"
    /\ call.id = "add-transit"
    /\ call.ret # <<>>
    /\ \/ call.ret[1].before.transitScore = 50 /\ stats.transitScore = 65
       \/ call.ret[1].before.transitScore = 93 /\ stats.transitScore = 100

\* C10 as stated: every year step of simulateTo, forward or backward and to
\* any year, leaves sustainabilityScore, energyEfficiency, greenCoverage,
\* transitScore and energyConsumption unchanged.
C10_StepsKeepScenarioFields ==
    [][YearStepped
         => \A k \in {"sustainabilityScore", "energyEfficiency", "greenCoverage",
                      "transitScore", "energyConsumption"} : stats'[k] = stats[k]]_vars

\* C10 amended: every forward year step, and every backward year step that
\* lands above the baseline year, leaves these five fields unchanged; a
\* backward step that lands at or below the baseline year makes the statistics
\* the baseline snapshot, these five fields included.
C10_StepsAboveBaselineKeepScenarioFields ==
    [][YearStepped
         => IF currentYear' > currentYear \/ currentYear' > baseYear
            THEN \A k \in {"sustainabilityScore", "energyEfficiency", "greenCoverage",
                           "transitScore", "energyConsumption"} : stats'[k] = stats[k]
            ELSE stats' = baselineStats]_vars

\* a year step has left a transitScore in place that a scenario had raised
C10_Witness ==
    /\ call.op \in {"simulateTo", "resume"}
    /\ call.cb # <<>>
    /\ scenarios # <<>>
    /\ stats.transitScore # baselineStats.transitScore

\* C11: after a year step that recomputes from the formulas (a forward step,
\* or a backward step that lands above the baseline year) population,
\* airQuality, walkability and carbonFootprint are the formulas' values for the
\* baseline snapshot and the years elapsed since the baseline year, whatever
\* was stored before the step: what a scenario did to them is gone.
C11_StepOverwritesFromBaseline ==
    [][(YearStepped /\ (currentYear' > currentYear \/ currentYear' > baseYear))
         => LET elapsed == currentYear' - baseYear
                b == baselineStats
            IN  /\ stats'.population = GrownPopulation(b.population, elapsed)
                /\ stats'.airQuality =
                       Max(MinAirQuality, DegradedAirQuality(b.airQuality, elapsed))
                /\ stats'.walkability =
                       Max(MinWalkability, DegradedWalkability(b.walkability, elapsed))
                /\ stats'.carbonFootprint = MathRound(2 * b.carbonFootprint + elapsed, 2)]_vars

\* population-growth had made the population 750000; a year step to 2026 has
\* stored round(500000 x 1.015) in its place
C11_Witness ==
    /\ call.op \in {"simulateTo", "resume"}
    /\ call.cb # <<>>
    /\ scenarios # <<>>
    /\ scenarios[1].id = "population-growth"
    /\ baselineStats.population = 500000
    /\ currentYear = baseYear + 1
    /\ stats.population = 507500

\* A run of simulateTo has stepped to the tenth year after the baseline year
\* of a city of 500000 and has left its loop there.
ArrivedAfterDecade ==
    /\ baselineStats.population = 500000
    /\ call.op = "resume"
    /\ call.outcome = "arrived"
    /\ currentYear = baseYear + 10

\* C12 as stated: with baseline population 500000, a completed simulateTo from
\* the baseline year to the baseline year + 10 leaves the stored population
\* equal to 580,037.
C12_DecadePopulation580037 == ArrivedAfterDecade => stats.population = 580037

\* C12 amended: with baseline population 500000, a completed simulateTo to the
\* baseline year + 10 leaves the stored population equal to
\* round(500000 x 1.015^10) = 580,270.
C12_DecadePopulation580270 == ArrivedAfterDecade => stats.population = 580270

\* the run has arrived in 2035 and 580270 is stored
C12_Witness == ArrivedAfterDecade /\ stats.population = 580270

\* C13: during a simulateTo run onUpdate is invoked exactly once for each year
\* step, and only then, with the new currentYear and the statistics as the
\* step left them; the first callback of a run gets the start year + 1 (or
\* - 1), and each later callback of the run gets the year of the run's
\* previous callback + 1 (target above start) or - 1 (otherwise).
C13_CallbacksStepByOne ==
    [][/\ call'.cb = IF YearStepped THEN <<<<currentYear', stats'>>>> ELSE <<>>
       /\ (call'.op = "simulateTo" /\ call'.cb # <<>>)
          => call'.cb[1][1] = currentYear + runs'[call'.run].direction
       /\ (call'.op = "resume" /\ call'.cb # <<>>)
          => call'.cb[1][1] = runs[call'.run].lastYear + runs[call'.run].direction]_vars

\* C14: under fair scheduling of the pacing-delay wake-ups every simulateTo
\* run that has passed the guard eventually leaves its loop and clears the
\* running flag, whatever stop(), reset() and further simulateTo() calls are
\* made during its delays.
C14_EveryRunExits ==
    \A i \in Runs : (runs[i].pc = "sleeping") ~> (runs[i].pc = "idle" /\ ~isRunning)

\* C15: each successful applyScenario appends exactly one record {id, name,
\* appliedAt = currentYear at the call} to the end of the history; reset()
\* empties it; no other call or step (a year step, the restoration of the
\* baseline by a backward step, stop, a failed applyScenario, a query)
\* changes it.
C15_HistoryGrowsBySuffix ==
    [][scenarios' =
           IF AppliedKnown
           THEN Append(scenarios, [id |-> call'.id, name |-> ScenarioName(call'.id),
                                   appliedAt |-> currentYear])
           ELSE IF call'.op = "reset" THEN <<>> ELSE scenarios]_vars

\* a second record was appended a year before the baseline year, after a
\* backward step had restored the baseline statistics and kept the first
C15_Witness ==
    /\ call.op = "applyScenario"
    /\ Len(scenarios) = 2
    /\ scenarios[1].appliedAt = baseYear
    /\ scenarios[2].appliedAt = baseYear - 1
    /\ scenarios[2].id = call.id

\* C16: the baseline statistics and the baseline distribution are the city's
\* statistics and distribution at construction, and no applyScenario, year
\* step, stop, reset, getProjection or getTimeline changes them.
C16_BaselineNeverChanges ==
    /\ baselineStats = stats
    /\ baselineDistribution = distribution
    /\ [][UNCHANGED <<baselineStats, baselineDistribution>>]_vars

\* the timeline was asked for after a scenario and a year step had changed the
\* statistics: the baseline is still one of the cities the engine is built on
C16_Witness ==
    /\ call.op = "getTimeline"
    /\ scenarios # <<>>
    /\ currentYear # baseYear
    /\ stats # baselineStats
    /\ baselineStats \in Baselines
    /\ baselineDistribution \in BaselineDistributions

\* C17: getProjection(year) changes no engine state; what it returns is
\* round(baseline population x 1.015^elapsed), max(0, baseline
\* sustainabilityScore - elapsed / 2) and baseline carbonFootprint +
\* elapsed / 2 for elapsed = year - baseline year, whatever scenarios were
\* applied and years stepped; for the baseline year these are the baseline
\* values.
C17_ProjectionIsPure ==
    [][call'.op = "getProjection"
         => LET p == call'.ret[1]
                b == baselineStats
                elapsed == p.year - baseYear
            IN  /\ UNCHANGED <<engine, runs>>
                /\ p.population = GrownPopulation(b.population, elapsed)
                /\ p.sustainabilityScore = Max(0, 2 * b.sustainabilityScore - elapsed)
                /\ p.carbonFootprint = 2 * b.carbonFootprint + elapsed
                /\ p.year = baseYear
                   => /\ p.population = b.population
                      /\ p.sustainabilityScore = 2 * b.sustainabilityScore
                      /\ p.carbonFootprint = 2 * b.carbonFootprint]_vars

\* the baseline year was projected a year before it, with a scenario applied
\* and statistics that differ from the baseline
C17_Witness ==
    /\ call.op = "getProjection"
    /\ call.ret[1].year = baseYear
    /\ call.ret[1].population = baselineStats.population
    /\ currentYear < baseYear
    /\ scenarios # <<>>
    /\ stats.sustainabilityScore # baselineStats.sustainabilityScore

\* The timeline event of a history record.
ScenarioEvent(record) ==
    [year |-> record.appliedAt, event |-> record.name, type |-> "scenario"]

\* C18: getTimeline() returns history length + 2 events: one start event at
\* the baseline year, one scenario event per history record with the record's
\* appliedAt year and name, and one current event at currentYear, in
\* non-decreasing order of year, also when currentYear is below the baseline
\* year; the call changes no engine state.
C18_TimelineSortedAndComplete ==
    [][call'.op = "getTimeline"
         => LET t == call'.ret[1]
                Count(event) == Cardinality({i \in DOMAIN t : t[i] = event})
            IN  /\ UNCHANGED <<engine, runs>>
                /\ Len(t) = Len(scenarios) + 2
                /\ \A i \in 1..(Len(t) - 1) : t[i].year <= t[i + 1].year
                /\ Count([year |-> baseYear, event |-> "Baseline", type |-> "start"]) = 1
                /\ Count([year |-> currentYear, event |-> "Current", type |-> "current"]) = 1
                /\ \A j \in DOMAIN scenarios :
                       Count(ScenarioEvent(scenarios[j])) =
                           Cardinality({k \in DOMAIN scenarios :
                                          ScenarioEvent(scenarios[k]) = ScenarioEvent(scenarios[j])})]_vars

\* the timeline was asked for a year before the baseline year, with a record
\* of the baseline year before a record of the year before it: the sort moved
\* the current event and the later record to the front
C18_Witness ==
    /\ call.op = "getTimeline"
    /\ currentYear < baseYear
    /\ Len(scenarios) = 2
    /\ scenarios[1].appliedAt > scenarios[2].appliedAt
    /\ call.ret[1][1].year = baseYear - 1
    /\ call.ret[1][Len(call.ret[1])].year = baseYear

\* C19: for every integer sustainabilityScore in 0..100 getSustainabilityRating
\* returns excellent from 90, good from 75 to 89, fair from 60 to 74 and poor
\* below 60: the configured poor threshold 40 has no effect, scores 40..59 are
\* rated poor.
C19_RatingBuckets ==
    [][call'.op = "getSustainabilityRating"
         => LET score == stats.sustainabilityScore
            IN  /\ score \in 0..100
                /\ call'.ret = <<CASE score >= 90 -> "excellent"
                                  [] score \in 75..89 -> "good"
                                  [] score \in 60..74 -> "fair"
                                  [] OTHER -> "poor">>]_vars

\* a score between the poor and the fair threshold was rated poor
C19_Witness ==
    /\ call.op = "getSustainabilityRating"
    /\ stats.sustainabilityScore \in 40..59
    /\ call.ret = <<"poor">>

\* C20: for every zone distribution of non-negative counts getZoneDistribution
\* divides by the sum of all counts minus the empty count; when that is 0 the
\* labels, data and colors are empty; otherwise the three have equal length
\* and list exactly the zones with a count above 0 in the order residential,
\* commercial, industrial, green, transit, road, each data entry being
\* Math.round((count / denominator) * 100) (counts 40, 10, 5, 20, 5, 20 with
\* empty 0 give 40, 10, 5, 20, 5, 20).
C20_ZoneChart ==
    [][call'.op = "getZoneDistribution"
         => LET d == distribution
                chart == call'.ret[1]
                built == d.residential + d.commercial + d.industrial + d.green
                         + d.transit + d.road
                denominator == (built + d.empty) - d.empty
                shown == SelectSeq(ChartZones, LAMBDA zone : d[zone] > 0)
            IN  /\ \A zone \in DOMAIN d : d[zone] >= 0
                /\ Len(chart.labels) = Len(chart.data)
                /\ Len(chart.colors) = Len(chart.data)
                /\ IF denominator = 0
                   THEN chart.data = <<>>
                   ELSE /\ Len(chart.data) = Cardinality({zone \in DOMAIN d \ {"empty"} :
                                                            d[zone] > 0})
                        /\ \A i \in DOMAIN shown :
                               /\ chart.labels[i] = ZoneName(shown[i])
                               /\ chart.colors[i] = ZoneColor(shown[i])
                               /\ chart.data[i] = ZoneShare(d[shown[i]], denominator)
                /\ d \in BaselineDistributions => chart.data = <<40, 10, 5, 20, 5, 20>>]_vars

\* the chart of a city with empty cells and two kinds of zones, not all kinds,
\* was drawn: one cell of three is shown as 33, two as 67
C20_Witness ==
    /\ call.op = "getZoneDistribution"
    /\ distribution.empty > 0
    /\ distribution.commercial = 0
    /\ call.ret[1].labels = <<"Residential", "Road">>
    /\ call.ret[1].data = <<33, 67>>

\* C21: getRecommendations returns one entry for every rule that holds among
\* greenCoverage < 25, transitScore < 60, walkability < 50 and more industrial
\* than green cells, in this order and nothing else; a city with greenCoverage
\* 20, transitScore 70, walkability 70 and no more industrial than green
\* cells gets the single entry 'Increase Green Spaces'.
C21_OneEntryPerRule ==
    [][call'.op = "getRecommendations" =>
        LET entries == call'.ret[1]
            titles  == [i \in 1..Len(entries) |-> entries[i].title]
            when(condition, title) == IF condition THEN <<title>> ELSE <<>>
        IN  /\ titles = when(stats.greenCoverage < 25, "Increase Green Spaces")
                        \o when(stats.transitScore < 60, "Expand Public Transit")
                        \o when(stats.walkability < 50, "Improve Walkability")
                        \o when(distribution.industrial > distribution.green,
                                "Balance Industry & Nature")
            /\ \A i \in 1..Len(entries) :
                   entries[i] \in {RuleEntry(r) : r \in {"green", "transit",
                                                         "walkability", "industry"}}
            /\ (/\ stats.greenCoverage = 20
                /\ stats.transitScore = 70
                /\ stats.walkability = 70
                /\ distribution.industrial <= distribution.green)
               => titles = <<"Increase Green Spaces">>]_vars

C21_Witness ==
    /\ call.op = "getRecommendations"
    /\ stats.greenCoverage = 20
    /\ stats.transitScore = 70
    /\ stats.walkability = 70
    /\ distribution.industrial = distribution.green
    /\ Len(call.ret[1]) = 1
    /\ call.ret[1][1].title = "Increase Green Spaces"

\* C22: a backward year step that lands at or before the baseline year makes
\* every field of the statistics equal to the baseline snapshot, whatever the
\* scenarios applied before, and leaves the history as it was; a backward step
\* that lands above the baseline year applies the recompute of a forward step
\* to population, airQuality, walkability and carbonFootprint.
C22_BackwardStepRestoresSnapshot ==
    [][(YearStepped /\ currentYear' < currentYear)
         => /\ scenarios' = scenarios
            /\ IF currentYear' <= baseYear
               THEN \A k \in StatKeys : stats'[k] = baselineStats[k]
               ELSE stats' = ApplyYearlyChanges(stats, baselineStats, currentYear')]_vars

\* a backward step has landed on the baseline year of a city with a scenario
\* in its history, and the statistics are the snapshot again
C22_Witness ==
    /\ call.op \in {"simulateTo", "resume"}
    /\ call.cb # <<>>
    /\ call.run # 0
    /\ runs[call.run].direction = -1
    /\ currentYear = baseYear
    /\ scenarios # <<>>
    /\ stats = baselineStats

\* C23: in the write-back of applyScenario, a written field for which the
\* modifier's output is 0, or which the output lacks, keeps the value it had
\* before the call, clamped to 0..100 for the bounded fields and rounded: an
\* output of 0 is not stored in place of a prior value that is not 0.
C23_ZeroOutputKeepsPrior ==
    [][(call'.op = "applyScenario" /\ call'.outcome = "applied")
         => LET id == call'.id
                m == IF id \in ScenarioKeys
                     THEN Modifier(id, ModifierInput(stats))
                     ELSE AddedModifier(id, ModifierInput(stats))
            IN  \A k \in {"population", "sustainabilityScore", "carbonFootprint",
                          "energyEfficiency", "transitScore", "walkability",
                          "airQuality"} :
                    (k \notin DOMAIN m \/ m[k] = 0)
                    => /\ stats'[k] = IF k \in BoundedKeys
                                      THEN Min(100, Max(0, stats[k]))
                                      ELSE stats[k]
                       /\ stats[k] \in 1..100 => stats'[k] # 0]_vars

\* a modifier returned 0 for all seven written fields of a city of 1001 with
\* walkability and airQuality above 0, and the city is as it was
C23_Witness ==
    /\ call.op = "applyScenario"
    /\ call.id = "zero-all"
    /\ call.ret # <<>>
    /\ call.ret[1].before.population = 1001
    /\ call.ret[1].before.walkability > 0
    /\ call.ret[1].before.airQuality > 0
    /\ stats = call.ret[1].before

\* C24: after every year step that recomputes from the formulas, and after
\* every recompute called by itself, the stored airQuality is at least 30 and
\* the stored walkability at least 20, whatever the baseline values and the
\* years elapsed, and the stored carbonFootprint is baseline carbonFootprint +
\* elapsed x 0.5 rounded to the nearest integer, a half rounding up.
C24_FloorsAndCarbon ==
    [][(\/ YearStepped /\ (currentYear' > currentYear \/ currentYear' > baseYear)
        \/ call'.op = "applyYearlyChanges"
        \/ call'.op = "revertYearlyChanges" /\ currentYear > baseYear)
         => /\ stats'.airQuality >= 30
            /\ stats'.walkability >= 20
            /\ 2 * stats'.carbonFootprint - 1
                   <= 2 * baselineStats.carbonFootprint + (currentYear' - baseYear)
            /\ 2 * baselineStats.carbonFootprint + (currentYear' - baseYear)
                   <= 2 * stats'.carbonFootprint]_vars

\* a city with baseline air quality 20, walkability 10 and carbon footprint -5
\* has stepped to the year after the baseline year: 30, 20 and -4 are stored
C24_Witness ==
    /\ call.op \in {"simulateTo", "resume"}
    /\ call.cb # <<>>
    /\ currentYear = baseYear + 1
    /\ baselineStats.airQuality = 20
    /\ baselineStats.walkability = 10
    /\ baselineStats.carbonFootprint = -5
    /\ stats.airQuality = 30
    /\ stats.walkability = 20
    /\ stats.carbonFootprint = -4

\* C25: while a run of simulateTo is active and no reset() occurs, currentYear
\* stays in the closed interval between the year the run started at and its
\* target, for every interleaving of stop() and further simulateTo() calls:
\* the year is never past the target of an active run, on the side its
\* direction points to.
C25_YearNotPastTarget ==
    \A i \in Suspended :
        IF runs[i].direction = 1
        THEN currentYear <= runs[i].targetYear
        ELSE currentYear >= runs[i].targetYear

\* C26: after a reset() called while a run of simulateTo is suspended, and
\* until a simulateTo call, a run that resumes makes no year step and invokes
\* no onUpdate, and currentYear stays the baseline year and the statistics the
\* baseline snapshot until the caller's next mutating call.  reset() leaves
\* the running flag cleared at the baseline; while the flag is cleared nothing
\* but simulateTo sets it, a resuming run changes nothing and calls nothing,
\* and only applyScenario, simulateTo and reset change year or statistics.
C26_ResetCancelsSuspendedRun ==
    [][/\ call'.op = "reset"
          => /\ ~isRunning'
             /\ currentYear' = baseYear
             /\ stats' = baselineStats
       /\ (~isRunning /\ call'.op # "simulateTo")
          => /\ ~isRunning'
             /\ call'.op = "resume"
                => /\ call'.cb = <<>>
                   /\ call'.outcome # "step"
                   /\ runs'[call'.run].pc = "idle"
             /\ call'.op \notin {"applyScenario", "reset"}
                => /\ currentYear' = currentYear
                   /\ stats' = stats]_vars

\* a run that no stop() had cancelled has resumed short of its target in a
\* city back at its baseline, and has left its loop
C26_Witness ==
    /\ call.op = "resume"
    /\ call.outcome = "cancelled"
    /\ call.run \notin stopRequested
    /\ ~isRunning
    /\ currentYear = baseYear
    /\ stats = baselineStats
    /\ scenarios = <<>>

====
